---- MODULE Spec2Model ----
(***************************************************************************)
(* A model of kaval's experiment core (expcore.py) and runners             *)
(* (runners.py): configuration expansion, suite loading, the shared-memory *)
(* sweep, the batch job-file generation, machine placement and runner      *)
(* selection.                                                              *)
(*                                                                         *)
(* Python values are encoded uniformly so that any two can be compared:    *)
(* a configuration value is a record [t, s, l] with t the Python type      *)
(* ("int", "str", "bool", "list"), s the str() rendering of a scalar and   *)
(* l the elements of a list.  A configuration (a dict, ordered by          *)
(* insertion) is a sequence of fields [k |-> key, v |-> value].            *)
(***************************************************************************)
EXTENDS Integers, Sequences, FiniteSets, TLC

VARIABLES
    \* ---- expcore.py: explode / load_suite_from_yaml
    cfg_in,         \* the mapping handed to explode
    exploded,       \* what explode returned
    yaml_config,    \* the 'config' entry of the YAML document
    suite_configs,  \* ExperimentSuite.configs as built by load_suite_from_yaml
    lpc,            \* where the loader is: "init", "exploded", "loaded"
    \* ---- runners.py: a runner's execute on a suite
    suite,          \* the ExperimentSuite
    runner,         \* the runner object's fields
    pc,             \* where execute is: "start", "loop", "running", "done", "exited"
    next_job,       \* position of the loop nest: index of the next iteration
    running,        \* subprocesses started and not yet returned
    executed,       \* subprocesses that returned, in order, with their exit codes
    written,        \* paths opened for writing, in order
    summary,        \* what the final print reports
    scripts,        \* job scripts written by SBatchRunner.execute, in order
    njobs,          \* SBatchRunner.execute's count of job files
    built,          \* what make_cmd_for_config returned, call by call
    \* ---- runners.py: placement of one job script
    place,          \* arguments and results of required_nodes / get_queue / required_islands
    \* ---- runners.py: get_runner
    args_machine,   \* args.machine
    selected,       \* the class of the runner returned, "exit", or "none" before the call
    \* ---- expcore.py: one call of a function of the experiment core
    call,           \* the callee, its receiver and arguments, and what came back
    \* ---- expcore.py: ExperimentSuite objects and the dicts they refer to
    dicts,          \* the dict objects alive, by identity
    suites          \* the ExperimentSuite objects constructed, in order

loadVars == <<cfg_in, exploded, yaml_config, suite_configs, lpc>>
sweepVars ==
    <<suite, runner, pc, next_job, running, executed, written, summary, scripts, njobs,
      built>>
placeVars == <<place>>
selectVars == <<args_machine, selected>>
callVars == <<call>>
heapVars == <<dicts, suites>>

vars == <<loadVars, sweepVars, placeVars, selectVars, callVars, heapVars>>

-----------------------------------------------------------------------------
(* Bounds of the model *)

MaxListLen == 2
MaxJobs == 8
MaxCoreCount == 1600
MaxRanks == 5
MaxFields == 2
MaxSuites == 2

-----------------------------------------------------------------------------
(* Python values *)

IntVal(n) == [t |-> "int", s |-> ToString(n), l |-> <<>>]
StrVal(str) == [t |-> "str", s |-> str, l |-> <<>>]
BoolVal(b) == [t |-> "bool", s |-> IF b THEN "True" ELSE "False", l |-> <<>>]
ListVal(elems) == [t |-> "list", s |-> "", l |-> elems]

IsList(value) == value.t = "list"

Field(key, value) == [k |-> key, v |-> value]

SeqsUpTo(S, n) == UNION {[1..m -> S] : m \in 0..n}

RECURSIVE ConcatTuple(_)
ConcatTuple(seqs) ==
    IF seqs = <<>> THEN <<>> ELSE Head(seqs) \o ConcatTuple(Tail(seqs))

\* The concatenation of a sequence of sequences (the sequence is first brought to
\* an explicit tuple, so that each of its elements is computed once).
Concat(seqs) == ConcatTuple(seqs \o <<>>)

Min(S) == CHOOSE x \in S : \A y \in S : x <= y

-----------------------------------------------------------------------------
(* expcore.py: explode *)

\* A slip of explode: every list-valued field is expanded only at its first element
\* (the loop over the list's elements leaves after one pass).
RECURSIVE explodeFirstOnly(_)
explodeFirstOnly(config) ==
    LET lists == {j \in 1..Len(config) : IsList(config[j].v)}
    IN  IF lists = {} THEN <<config>>
        ELSE LET j == Min(lists)
                 value == config[j].v.l
             IN  IF value = <<>> THEN <<config>>
                 ELSE explodeFirstOnly([config EXCEPT ![j].v = value[1]])

\* A slip of explode: the last list-valued field, not the first, is expanded first.
RECURSIVE explodeLastListFirst(_)
explodeLastListFirst(config) ==
    LET lists == {j \in 1..Len(config) : IsList(config[j].v)}
    IN  IF lists = {} THEN <<config>>
        ELSE LET j == CHOOSE x \in lists : \A y \in lists : x >= y
                 value == config[j].v.l
                 configs == Concat([a \in 1..Len(value) |->
                                      explodeLastListFirst([config EXCEPT ![j].v = value[a]])])
             IN  IF configs = <<>> THEN <<config>> ELSE configs

\* for flag, value in config.items(): the first list-valued field is replaced by each
\* of its elements in turn, each copy is exploded again, and the loop breaks; when
\* nothing was collected the mapping itself is the only result.
RECURSIVE explode(_)
explode(config) ==
    LET lists == {j \in 1..Len(config) : IsList(config[j].v)}
    IN  IF lists = {} THEN <<config>>
        ELSE LET j == Min(lists)
                 value == config[j].v.l
                 configs == Concat([a \in 1..Len(value) |->
                                      explode([config EXCEPT ![j].v = value[a]])])
             IN  IF configs = <<>> THEN <<config>> ELSE configs

\* load_suite_from_yaml, the 'config' entry: absent gives one empty mapping, a list
\* gives the concatenation of its mappings' expansions, a mapping its expansion.
LoadConfigs(data) ==
    IF data.kind = "absent" THEN << <<>> >>
    ELSE IF data.kind = "list"
         THEN Concat([i \in 1..Len(data.items) |-> explode(data.items[i])])
         ELSE explode(data.items[1])

-----------------------------------------------------------------------------
(* The configurations the loader is run on *)

Absent == [t |-> "absent", s |-> "", l |-> <<>>]

FlatLists(atoms) == {ListVal(e) : e \in SeqsUpTo(atoms, MaxListLen)}
NestedLists(atoms) == {ListVal(<<f>>) : f \in FlatLists(atoms)}

ValuesA == {Absent} \cup {IntVal(1), IntVal(2)} \cup FlatLists({IntVal(1), IntVal(2)})
              \cup NestedLists({IntVal(1), IntVal(2)})
ValuesB == {Absent, StrVal("x")} \cup FlatLists({StrVal("x"), StrVal("y")})
ValuesC == {Absent, BoolVal(TRUE)} \cup FlatLists({BoolVal(TRUE), BoolVal(FALSE)})

MakeConfig(a, b, c) ==
    (IF a = Absent THEN <<>> ELSE <<Field("a", a)>>)
    \o (IF b = Absent THEN <<>> ELSE <<Field("b", b)>>)
    \o (IF c = Absent THEN <<>> ELSE <<Field("c", c)>>)

Configs == {MakeConfig(a, b, c) : a \in ValuesA, b \in ValuesB, c \in ValuesC}

OtherConfig == <<Field("k", ListVal(<<StrVal("v"), StrVal("w")>>))>>

YamlConfigs(c) ==
    { [kind |-> "absent", items |-> <<>>],
      [kind |-> "mapping", items |-> <<c>>],
      [kind |-> "list", items |-> <<c>>],
      [kind |-> "list", items |-> <<OtherConfig, c>>] }

IdleLoad ==
    /\ cfg_in = <<>>
    /\ yaml_config = [kind |-> "absent", items |-> <<>>]
    /\ exploded = <<>>
    /\ suite_configs = <<>>
    /\ lpc = "idle"

IdleSweep ==
    /\ suite = [name |-> ""]
    /\ runner = [cls |-> ""]
    /\ pc = "idle"
    /\ next_job = 0
    /\ running = {}
    /\ executed = <<>>
    /\ written = <<>>
    /\ summary = <<>>
    /\ scripts = <<>>
    /\ njobs = 0
    /\ built = <<>>

IdleCall == call = [fn |-> ""]

IdleHeap == dicts = <<>> /\ suites = <<>>

IdlePlace == place = [done |-> FALSE]

IdleSelect == args_machine = "" /\ selected = "none"

InitLoad ==
    /\ IdleSweep /\ IdlePlace /\ IdleSelect /\ IdleCall /\ IdleHeap
    /\ cfg_in \in Configs
    /\ yaml_config \in YamlConfigs(cfg_in)
    /\ exploded = <<>>
    /\ suite_configs = <<>>
    /\ lpc = "init"

CallExplode ==
    /\ lpc = "init"
    /\ exploded' = explode(cfg_in)
    /\ lpc' = "exploded"
    /\ UNCHANGED <<cfg_in, yaml_config, suite_configs, sweepVars, placeVars, selectVars, callVars, heapVars>>

LoadSuiteFromYaml ==
    /\ lpc = "exploded"
    /\ suite_configs' = LoadConfigs(yaml_config)
    /\ lpc' = "loaded"
    /\ UNCHANGED <<cfg_in, yaml_config, exploded, sweepVars, placeVars, selectVars, callVars, heapVars>>

NextLoad == CallExplode \/ LoadSuiteFromYaml

SpecLoad == InitLoad /\ [][NextLoad]_vars

-----------------------------------------------------------------------------
(* Claims about explode and the loader *)

\* The top-level list-valued fields of a mapping, and one configuration per choice
\* of an element index for each of them.
ListFields(config) == {j \in 1..Len(config) : IsList(config[j].v)}
Choices(config) ==
    {ch \in [ListFields(config) -> 1..MaxListLen] :
        \A j \in ListFields(config) : ch[j] <= Len(config[j].v.l)}
Pick(config, ch) ==
    [j \in 1..Len(config) |->
        IF j \in ListFields(config)
        THEN Field(config[j].k, config[j].v.l[ch[j]])
        ELSE config[j]]
IndexesOf(results, r) == {i \in 1..Len(results) : results[i] = r}

\* C1: explode returns exactly s1*...*sk mappings for list-valued fields of sizes
\* s1..sk (sizes 0 and 1 included), each the input with every list-valued field
\* replaced by one element of its list, and every combination appears exactly once.
C1_ExplodeIsProduct ==
    lpc # "init" =>
        /\ Len(exploded) = Cardinality(Choices(cfg_in))
        /\ \A i \in 1..Len(exploded) :
              \E ch \in Choices(cfg_in) : exploded[i] = Pick(cfg_in, ch)
        /\ \A ch \in Choices(cfg_in) :
              Cardinality(IndexesOf(exploded, Pick(cfg_in, ch)))
                  = Cardinality({c2 \in Choices(cfg_in) :
                                    Pick(cfg_in, c2) = Pick(cfg_in, ch)})

IsScalarConfig(config) == \A j \in 1..Len(config) : ~IsList(config[j].v)

\* C2: every configuration of a suite built by load_suite_from_yaml is fully scalar:
\* no mapping of suite.configs has a list as a field value.
C2_SuiteConfigsScalar ==
    lpc = "loaded" =>
        \A i \in 1..Len(suite_configs) : IsScalarConfig(suite_configs[i])

-----------------------------------------------------------------------------
(* expcore.py: inputs and suites, as far as the runners read them *)

\* FileInputGraph.name: the slug, with "_partitioned" appended when partitioned.
InputName(input) ==
    IF input.partitioned THEN input._name \o "_partitioned" ELSE input._name

\* FileInputGraph.args, its exit: a partitioned input run on more than one rank needs
\* an entry (a non-empty path) for exactly that rank count, else sys.exit(1).
ArgsExits(input, mpi_ranks) ==
    LET partition_file == IF mpi_ranks \in DOMAIN input.partitions
                          THEN input.partitions[mpi_ranks] ELSE ""
    IN  input.partitioned /\ mpi_ranks > 1 /\ partition_file = ""

\* ExperimentSuite.get_input_time_limit; None is modelled as 0 (both are falsy).
get_input_time_limit(s, input_name) ==
    IF input_name \in DOMAIN s.input_time_limit
    THEN s.input_time_limit[input_name]
    ELSE s.time_limit

-----------------------------------------------------------------------------
(* expcore.py: FileInputGraph.args, params_to_flags, command *)

\* What a call gave back: a value returned, or the process ended by sys.exit(status).
Returned(value, lookups) ==
    [returns |-> TRUE, exit_status |-> 0, value |-> value, lookups |-> lookups]
Exited(status, lookups) ==
    [returns |-> FALSE, exit_status |-> status, value |-> <<>>, lookups |-> lookups]

\* A slip of FileInputGraph.args: the rank count is not looked at, every partitioned
\* input asks for its partition file.
FileInputGraph_argsAnyRanks(input, mpi_ranks, threads_per_rank, escape) ==
    LET file_args == <<"--graphtype", "BRAIN", "--infile_dir", input.path>>
    IN  IF input.partitioned
        THEN LET partition_file == IF mpi_ranks \in DOMAIN input.partitions
                                   THEN input.partitions[mpi_ranks] ELSE ""
             IN  IF partition_file = "" THEN Exited(1, <<mpi_ranks>>)
                 ELSE Returned(file_args \o <<"--partitioning", partition_file>>,
                               <<mpi_ranks>>)
        ELSE Returned(file_args, <<>>)

\* FileInputGraph.args: file_args = ["--graphtype", "BRAIN", "--infile_dir", path]; if
\* self.partitioned and mpi_ranks > 1: partition_file = self.partitions.get(mpi_ranks,
\* None), sys.exit(1) if not partition_file, else file_args += ["--partitioning",
\* partition_file].  None is modelled as the empty string (both are falsy); lookups
\* are the keys the partition map was asked for.
FileInputGraph_args(input, mpi_ranks, threads_per_rank, escape) ==
    LET file_args == <<"--graphtype", "BRAIN", "--infile_dir", input.path>>
    IN  IF input.partitioned /\ mpi_ranks > 1
        THEN LET partition_file == IF mpi_ranks \in DOMAIN input.partitions
                                   THEN input.partitions[mpi_ranks] ELSE ""
             IN  IF partition_file = "" THEN Exited(1, <<mpi_ranks>>)
                 ELSE Returned(file_args \o <<"--partitioning", partition_file>>,
                               <<mpi_ranks>>)
        ELSE Returned(file_args, <<>>)

\* A slip of params_to_flags: only a true boolean is told apart, a false one is
\* rendered like any other value.
RECURSIVE params_to_flagsFalseRendered(_)
params_to_flagsFalseRendered(params) ==
    IF params = <<>> THEN <<>>
    ELSE LET flag == Head(params).k
             value == Head(params).v
             dash == IF Len(flag) > 1 THEN "--" ELSE "-"
         IN  (IF value = BoolVal(TRUE) THEN <<dash \o flag>>
              ELSE <<dash \o flag, value.s>>)
                 \o params_to_flagsFalseRendered(Tail(params))

\* for flag, value in params.items(): dash = "-", one more "-" if len(flag) > 1; a bool
\* appends dash + flag if it is true and nothing otherwise; any other value appends
\* dash + flag and str(value).
RECURSIVE params_to_flags(_)
params_to_flags(params) ==
    IF params = <<>> THEN <<>>
    ELSE LET flag == Head(params).k
             value == Head(params).v
             dash == IF Len(flag) > 1 THEN "--" ELSE "-"
         IN  (IF value.t = "bool"
              THEN (IF value.s = "True" THEN <<dash \o flag>> ELSE <<>>)
              ELSE <<dash \o flag, value.s>>)
                 \o params_to_flags(Tail(params))

\* str(build_dir / binary_path / binary_name), with binary_path "." and BUILD_DIR
\* not set.
AppPath(binary_name) == "../build/" \o binary_name

\* expcore.command: [app] + input.args(mpi_ranks, threads_per_rank, escape) +
\* params_to_flags(kwargs); the process ends where input.args ends it.
command(binary_name, input, mpi_ranks, threads_per_rank, escape, kwargs) ==
    LET input_args == FileInputGraph_args(input, mpi_ranks, threads_per_rank, escape)
    IN  IF input_args.returns
        THEN Returned(<<AppPath(binary_name)>> \o input_args.value \o params_to_flags(kwargs),
                      input_args.lookups)
        ELSE input_args

-----------------------------------------------------------------------------
(* runners.py: BaseRunner.make_cmd_for_config *)

output_directory == "out"

\* config[key] = value on a dict: an existing key keeps its place, a new one is added
\* at the end.
SetItem(config, key, value) ==
    IF \E j \in 1..Len(config) : config[j].k = key
    THEN [j \in 1..Len(config) |->
             IF config[j].k = key THEN Field(key, value) ELSE config[j]] \o <<>>
    ELSE Append(config, Field(key, value))

JsonOutputPath(config_job_name) ==
    output_directory \o "/" \o config_job_name \o "_timer.json"

\* A slip of make_cmd_for_config: the fields are set in the caller's dict (no copy).
make_cmd_for_configNoCopy(r, s, input, config_job_name, mpi_ranks, threads_per_rank, seed, config) ==
    LET with_json == IF ~r.omit_json_output_path
                     THEN SetItem(config, "json_output_path",
                                  StrVal(JsonOutputPath(config_job_name)))
                     ELSE config
        with_seed == IF ~r.omit_seed THEN SetItem(with_json, "seed", IntVal(seed))
                     ELSE with_json
    IN  [cmd |-> command(s.executable, input, mpi_ranks, threads_per_rank, TRUE, with_seed),
         config |-> with_seed]

\* A slip of make_cmd_for_config: omit_seed is not looked at.
make_cmd_for_configSeedAlways(r, s, input, config_job_name, mpi_ranks, threads_per_rank, seed, config) ==
    LET copy == config
        with_json == IF ~r.omit_json_output_path
                     THEN SetItem(copy, "json_output_path",
                                  StrVal(JsonOutputPath(config_job_name)))
                     ELSE copy
        with_seed == SetItem(with_json, "seed", IntVal(seed))
    IN  [cmd |-> command(s.executable, input, mpi_ranks, threads_per_rank, TRUE, with_seed),
         config |-> config]

\* BaseRunner.make_cmd_for_config: config = config.copy(); json_output_path is set
\* unless omit_json_output_path, seed unless omit_seed; the command is built from the
\* copy.  Given back: the command (or the exit) and the caller's dict as the call
\* leaves it.
make_cmd_for_config(r, s, input, config_job_name, mpi_ranks, threads_per_rank, seed, config) ==
    LET copy == config
        with_json == IF ~r.omit_json_output_path
                     THEN SetItem(copy, "json_output_path",
                                  StrVal(JsonOutputPath(config_job_name)))
                     ELSE copy
        with_seed == IF ~r.omit_seed THEN SetItem(with_json, "seed", IntVal(seed))
                     ELSE with_json
    IN  [cmd |-> command(s.executable, input, mpi_ranks, threads_per_rank, TRUE, with_seed),
         config |-> config]

-----------------------------------------------------------------------------
(* runners.py: SharedMemoryRunner.execute *)

ConfigJson == output_directory \o "/config.json"

Job(i, c, n, sd, t) == [input |-> i, config |-> c, core |-> n, seed |-> sd, threads |-> t]

\* A slip of the loop nest: seeds iterated inside threads-per-rank.
SharedJobsSeedInnermost(s, max_cores) ==
    Concat([i \in 1..Len(s.inputs) |->
      Concat([c \in 1..Len(s.configs) |->
        Concat([n \in 1..Len(s.cores) |->
          IF s.cores[n] > max_cores THEN <<>>
          ELSE Concat([t \in 1..Len(s.threads_per_rank) |->
                 [sd \in 1..Len(s.seeds) |-> Job(i, c, n, sd, t)]])])])])

\* The iterations of the loop nest of SharedMemoryRunner.execute, in order: inputs,
\* configs, cores (those above max_cores skipped), seeds, threads-per-rank.
SharedJobs(s, max_cores) ==
    Concat([i \in 1..Len(s.inputs) |->
      Concat([c \in 1..Len(s.configs) |->
        Concat([n \in 1..Len(s.cores) |->
          IF s.cores[n] > max_cores THEN <<>>
          ELSE Concat([sd \in 1..Len(s.seeds) |->
                 [t \in 1..Len(s.threads_per_rank) |-> Job(i, c, n, sd, t)]])])])])

\* mpi_ranks = ncores // threads
MpiRanks(s, job) == s.cores[job.core] \div s.threads_per_rank[job.threads]

\* config_job_name: "<input>-np<ranks>-t<threads>-c<config index>-s<seed>", with the
\* config index counted from 0 (enumerate).
ConfigJobName(s, job) ==
    InputName(s.inputs[job.input]) \o "-np" \o ToString(MpiRanks(s, job))
        \o "-t" \o ToString(s.threads_per_rank[job.threads])
        \o "-c" \o ToString(job.config - 1)
        \o "-s" \o ToString(s.seeds[job.seed])

\* self.make_cmd_for_config(experiment_suite, input, config_job_name, i, mpi_ranks,
\* threads, seed, config)
SharedMakeCmd(r, s, job) ==
    make_cmd_for_config(r, s, s.inputs[job.input], ConfigJobName(s, job), MpiRanks(s, job),
                        s.threads_per_rank[job.threads], s.seeds[job.seed],
                        s.configs[job.config])

LogPath(s, job) == output_directory \o "/" \o ConfigJobName(s, job) \o "-log.txt"
ErrPath(s, job) == output_directory \o "/" \o ConfigJobName(s, job) \o "-error-log.txt"

\* with open(config.json, "w"): json.dump(suite.configs)
SharedWriteConfig ==
    /\ pc = "start"
    /\ runner.cls = "SharedMemoryRunner"
    /\ written' = Append(written, ConfigJson)
    /\ pc' = "loop"
    /\ UNCHANGED <<suite, runner, next_job, running, executed, summary, scripts, njobs, built,
                   loadVars, placeVars, selectVars, callVars, heapVars>>

\* make_cmd_for_config -> expcore.command -> input.args: sys.exit(1) on a missing
\* partition, before the job's log files are opened.
SharedArgsExit ==
    /\ pc = "loop"
    /\ runner.cls = "SharedMemoryRunner"
    /\ LET jobs == SharedJobs(suite, runner.max_cores)
       IN  /\ next_job <= Len(jobs)
           /\ ArgsExits(suite.inputs[jobs[next_job].input], MpiRanks(suite, jobs[next_job]))
    /\ pc' = "exited"
    /\ UNCHANGED <<suite, runner, next_job, running, executed, written, summary, scripts, njobs, built,
                   loadVars, placeVars, selectVars, callVars, heapVars>>

\* One iteration up to subprocess.run: the command is built by make_cmd_for_config
\* (which is handed the suite's own dict), both log files are opened for writing and
\* the subprocess is started.
SharedStartJob ==
    /\ pc = "loop"
    /\ runner.cls = "SharedMemoryRunner"
    /\ LET jobs == SharedJobs(suite, runner.max_cores)
       IN  /\ next_job <= Len(jobs)
           /\ LET job == jobs[next_job]
                  made == SharedMakeCmd(runner, suite, job)
              IN  /\ ~ArgsExits(suite.inputs[job.input], MpiRanks(suite, job))
                  /\ made.cmd.returns
                  /\ suite' = [suite EXCEPT !.configs[job.config] = made.config]
                  /\ built' = Append(built, [jobname |-> ConfigJobName(suite, job),
                                             mpi_ranks |-> MpiRanks(suite, job),
                                             cmd |-> made.cmd.value])
                  /\ written' = written \o <<LogPath(suite, job), ErrPath(suite, job)>>
                  /\ running' = running \cup {job}
    /\ pc' = "running"
    /\ UNCHANGED <<runner, next_job, executed, summary, scripts, njobs,
                   loadVars, placeVars, selectVars, callVars, heapVars>>

\* A slip of the iteration's end: the sweep stops at the first failed job.
SharedFinishJobStopsOnFailure ==
    /\ pc = "running"
    /\ runner.cls = "SharedMemoryRunner"
    /\ LET job == SharedJobs(suite, runner.max_cores)[next_job]
       IN  /\ running' = running \ {job}
           /\ \E ret \in {0, 1} :
                 /\ executed' = Append(executed, [job |-> job, ret |-> ret])
                 /\ runner' = [runner EXCEPT
                                   !.failed = IF ret = 0 THEN @ ELSE @ + 1,
                                   !.total_jobs = @ + 1]
                 /\ pc' = IF ret = 0 THEN "loop" ELSE "done"
                 /\ summary' = IF ret = 0 THEN summary
                               ELSE <<runner'.failed, runner'.total_jobs>>
    /\ next_job' = next_job + 1
    /\ UNCHANGED <<suite, written, scripts, njobs, built,
                   loadVars, placeVars, selectVars, callVars, heapVars>>

\* subprocess.run returns: a non-zero return code counts as failed, every job counts
\* in total_jobs, and the loop goes on.
SharedFinishJob ==
    /\ pc = "running"
    /\ runner.cls = "SharedMemoryRunner"
    /\ LET job == SharedJobs(suite, runner.max_cores)[next_job]
       IN  /\ running' = running \ {job}
           /\ \E ret \in {0, 1} :
                 /\ executed' = Append(executed, [job |-> job, ret |-> ret])
                 /\ runner' = [runner EXCEPT
                                   !.failed = IF ret = 0 THEN @ ELSE @ + 1,
                                   !.total_jobs = @ + 1]
    /\ next_job' = next_job + 1
    /\ pc' = "loop"
    /\ UNCHANGED <<suite, written, summary, scripts, njobs, built,
                   loadVars, placeVars, selectVars, callVars, heapVars>>

\* The loops are exhausted: the summary "<failed> out of <total_jobs> failed" is printed.
SharedEndSweep ==
    /\ pc = "loop"
    /\ runner.cls = "SharedMemoryRunner"
    /\ next_job > Len(SharedJobs(suite, runner.max_cores))
    /\ summary' = <<runner.failed, runner.total_jobs>>
    /\ pc' = "done"
    /\ UNCHANGED <<suite, runner, next_job, running, executed, written, scripts, njobs, built,
                   loadVars, placeVars, selectVars, callVars, heapVars>>

NextShared ==
    \/ SharedWriteConfig
    \/ SharedArgsExit
    \/ SharedStartJob
    \/ SharedFinishJob
    \/ SharedEndSweep

-----------------------------------------------------------------------------
(* The suites and runners the sweeps are run on *)

FileInput(name, partitioned, partitions) ==
    [_name |-> name, path |-> "graphs/" \o name, partitioned |-> partitioned,
     partitions |-> partitions]

InputG == FileInput("g", FALSE, <<>>)
InputH == FileInput("h", TRUE, (2 :> "h.2.part"))

InputK == FileInput("k", FALSE, <<>>)

InputLists == {<<>>, <<InputG>>, <<InputH, InputG>>, <<InputG, InputK>>}
ConfigLists ==
    { LoadConfigs([kind |-> "absent", items |-> <<>>]),
      LoadConfigs([kind |-> "list", items |-> <<>>]),
      LoadConfigs([kind |-> "mapping",
                   items |-> << <<Field("a", ListVal(<<IntVal(1), IntVal(2)>>)),
                                  Field("b", StrVal("x"))>> >>]) }
SharedCoreLists == {<<>>, <<2>>, <<4, 2>>, <<4, 5>>, <<8, 2>>}
SeedLists == {<<0>>, <<1, 0>>}
ThreadLists == {<<1>>, <<2>>, <<1, 2>>}

Suite(inputs, configs, cores, seeds, threads, tasks_per_node, time_limit, limits) ==
    [name |-> "suite", executable |-> "app", inputs |-> inputs, configs |-> configs,
     cores |-> cores, seeds |-> seeds, threads_per_rank |-> threads,
     tasks_per_node |-> tasks_per_node, time_limit |-> time_limit,
     input_time_limit |-> limits]

\* SharedMemoryRunner.__init__: failed = 0, total_jobs = 0.
SharedMemoryRunner(max_cores, omit_json_output_path, omit_seed) ==
    [cls |-> "SharedMemoryRunner", machine |-> "shared", max_cores |-> max_cores, failed |-> 0, total_jobs |-> 0,
     tasks_per_node |-> 0, time_limit |-> 0, use_test_partition |-> FALSE,
     omit_json_output_path |-> omit_json_output_path, omit_seed |-> omit_seed]

InitShared ==
    /\ IdleLoad /\ IdlePlace /\ IdleSelect /\ IdleCall /\ IdleHeap
    /\ suite \in {Suite(i, c, n, sd, t, 0, 0, <<>>) :
                     i \in InputLists, c \in ConfigLists, n \in SharedCoreLists,
                     sd \in SeedLists, t \in ThreadLists}
    /\ runner \in {SharedMemoryRunner(m, FALSE, FALSE) : m \in {4, 8}}
    /\ Len(SharedJobs(suite, runner.max_cores)) <= MaxJobs
    /\ pc = "start"
    /\ next_job = 1
    /\ running = {}
    /\ executed = <<>>
    /\ written = <<>>
    /\ summary = <<>>
    /\ scripts = <<>>
    /\ njobs = 0
    /\ built = <<>>

SpecShared == InitShared /\ [][NextShared]_vars

-----------------------------------------------------------------------------
(* Claims about SharedMemoryRunner.execute *)

Range(f) == {f[x] : x \in DOMAIN f}

\* The grid of the sweep, told by positions in the suite's lists.
AllowedCores(s, max_cores) == {n \in 1..Len(s.cores) : s.cores[n] <= max_cores}
Grid(s, max_cores) ==
    {Job(i, c, n, sd, t) :
        i \in 1..Len(s.inputs), c \in 1..Len(s.configs), n \in AllowedCores(s, max_cores),
        sd \in 1..Len(s.seeds), t \in 1..Len(s.threads_per_rank)}
ExecutedJobs == {executed[k].job : k \in 1..Len(executed)}
NonZeroExits == {k \in 1..Len(executed) : executed[k].ret # 0}

\* What holds of the counters and of the jobs run so far, at every point of a sweep.
SweepCounts ==
    /\ runner.failed <= runner.total_jobs
    /\ runner.total_jobs = Len(executed)
    /\ runner.failed = Cardinality(NonZeroExits)
    /\ \A k, l \in 1..Len(executed) : executed[k].job = executed[l].job => k = l
    /\ ExecutedJobs \subseteq Grid(suite, runner.max_cores)
    /\ pc = "done" =>
          /\ ExecutedJobs = Grid(suite, runner.max_cores)
          /\ runner.total_jobs =
                Len(suite.inputs) * Len(suite.configs)
                    * Cardinality(AllowedCores(suite, runner.max_cores))
                    * Len(suite.seeds) * Len(suite.threads_per_rank)
          /\ summary = <<runner.failed, runner.total_jobs>>

\* A returning job, whatever its exit code, hands control back to the loop; the sweep
\* ends only with the loops exhausted, and stops early only where an input's
\* partition file is missing.
SweepGoesOn ==
    /\ pc = "running" => pc' = "loop" /\ Len(executed') = Len(executed) + 1
    /\ pc' = "done" /\ pc # "done" => ExecutedJobs = Grid(suite, runner.max_cores)
    /\ pc' = "exited" /\ pc # "exited" =>
          \E job \in Grid(suite, runner.max_cores) \ ExecutedJobs :
              ArgsExits(suite.inputs[job.input], MpiRanks(suite, job))

\* C3: a failing job never aborts the sweep. At every point failed <= total_jobs,
\* failed counts the non-zero exit codes seen and no combination has run twice; after
\* every job, failed or not, the loop goes on; and when the sweep ends every
\* combination of (input, config, core-count <= max_cores, seed, threads-per-rank)
\* has run exactly once, total_jobs is the product of the five sizes and the summary
\* reports failed and total_jobs.
C3_SweepSurvivesJobFailures == []SweepCounts /\ [][SweepGoesOn]_vars

\* The spec's end-to-end scenario (2 core counts, 1 threads-per-rank, 2 configs, 1
\* input, 2 seeds: 8 jobs) has run to its end with some jobs failed and some not.
C3_Witness ==
    /\ pc = "done"
    /\ Len(suite.cores) = 2 /\ Len(suite.threads_per_rank) = 1 /\ Len(suite.configs) = 2
    /\ Len(suite.inputs) = 1 /\ Len(suite.seeds) = 2
    /\ runner.total_jobs = 8
    /\ runner.failed = 3
    /\ executed[1].ret # 0

\* Position order of the loop nest: inputs outermost, then configs, cores, seeds and
\* threads-per-rank innermost.
Before(j1, j2) ==
    LET a == <<j1.input, j1.config, j1.core, j1.seed, j1.threads>>
        b == <<j2.input, j2.config, j2.core, j2.seed, j2.threads>>
    IN  \E p \in 1..5 : a[p] < b[p] /\ \A q \in 1..(p - 1) : a[q] = b[q]

\* C4: jobs run one at a time and in loop-nest order (inputs, configs, cores, seeds,
\* threads-per-rank innermost, each in the suite's order, none skipped), and
\* config.json is written exactly once, before the first job starts.
C4_OneAtATimeInLoopOrder ==
    /\ Cardinality(running) <= 1
    /\ running \cap ExecutedJobs = {}
    /\ \A k, l \in 1..Len(executed) : k < l => Before(executed[k].job, executed[l].job)
    /\ \A job \in Grid(suite, runner.max_cores) \ ExecutedJobs :
          /\ \A k \in 1..Len(executed) : Before(executed[k].job, job)
          /\ \A r \in running : r = job \/ Before(r, job)
    /\ pc = "start" => written = <<>> /\ executed = <<>> /\ running = {}
    /\ pc # "start" =>
          /\ written[1] = ConfigJson
          /\ \A k \in 2..Len(written) : written[k] # ConfigJson

\* A sweep over two seeds and two threads-per-rank values has a job in flight after
\* others returned.
C4_Witness ==
    /\ pc = "running"
    /\ Len(suite.seeds) = 2 /\ Len(suite.threads_per_rank) = 2 /\ Len(suite.cores) = 2
    /\ Len(executed) = 5
    /\ Cardinality(running) = 1

\* Two jobs of the grid differ in input, config index, core-count, seed or
\* threads-per-rank.
Differ(s, j1, j2) ==
    \/ s.inputs[j1.input] # s.inputs[j2.input]
    \/ j1.config # j2.config
    \/ s.cores[j1.core] # s.cores[j2.core]
    \/ s.seeds[j1.seed] # s.seeds[j2.seed]
    \/ s.threads_per_rank[j1.threads] # s.threads_per_rank[j2.threads]

LogFiles == {p \in Range(written) : \E job \in ExecutedJobs : p = LogPath(suite, job)}
ErrFiles == {p \in Range(written) : \E job \in ExecutedJobs : p = ErrPath(suite, job)}

\* C5: after a sweep every executed job has its own log file and its own error-log
\* file: two distinct jobs never write to the same path, so there are total_jobs log
\* files and total_jobs error-log files.
C5_OneLogPerJob ==
    pc = "done" =>
        /\ \A j1, j2 \in ExecutedJobs :
              Differ(suite, j1, j2) =>
                  /\ LogPath(suite, j1) # LogPath(suite, j2)
                  /\ ErrPath(suite, j1) # ErrPath(suite, j2)
        /\ Cardinality(LogFiles) = runner.total_jobs
        /\ Cardinality(ErrFiles) = runner.total_jobs

-----------------------------------------------------------------------------
(* runners.py: placement (required_nodes, get_queue, required_islands) *)

SBatchClasses == {"SuperMUCRunner", "HorekaRunner", "GenericDistributedMemoryRunner"}

\* int(max(int(m.ceil(float(cores) / tasks_per_node)), 1))
required_nodes(cores, tasks_per_node) ==
    LET ceil == IF cores % tasks_per_node = 0
                THEN cores \div tasks_per_node
                ELSE cores \div tasks_per_node + 1
    IN  IF ceil > 1 THEN ceil ELSE 1

\* get_queue of the three machine classes. HorekaRunner's last branch returns (does
\* not raise) a ValueError object; the job-script template renders it by str().
get_queue(cls, cores, tasks_per_node, use_test_partition) ==
    LET nodes == required_nodes(cores, tasks_per_node)
    IN  IF cls = "SuperMUCRunner"
        THEN IF nodes <= 16 THEN (IF use_test_partition THEN "test" ELSE "micro")
             ELSE IF nodes <= 768 THEN "general"
             ELSE "large"
        ELSE IF cls = "HorekaRunner"
        THEN IF nodes <= 12 THEN (IF use_test_partition THEN "dev_cpuonly" ELSE "cpuonly")
             ELSE IF nodes <= 192 THEN "cpuonly"
             ELSE "Cannot use more than 192 compute nodes on HoreKa!"
        ELSE "generic_partition"

\* A slip of required_islands: the island threshold taken at 768 nodes, not above.
required_islandsFrom768(cls, nodes) ==
    IF cls = "SuperMUCRunner" THEN (IF nodes >= 768 THEN 2 ELSE 1) ELSE 1

\* required_islands of the three machine classes.
required_islands(cls, nodes) ==
    IF cls = "SuperMUCRunner" THEN (IF nodes > 768 THEN 2 ELSE 1) ELSE 1

\* The constructors' default: tasks_per_node if tasks_per_node is not None else
\* 48 / 76 / 1 (None is modelled as 0).
DefaultTasksPerNode(cls, tasks_per_node) ==
    IF tasks_per_node # 0 THEN tasks_per_node
    ELSE IF cls = "SuperMUCRunner" THEN 48
    ELSE IF cls = "HorekaRunner" THEN 76
    ELSE 1

-----------------------------------------------------------------------------
(* runners.py: format_duration *)

\* divmod(seconds, 3600*24), divmod(remainder, 3600), divmod(remainder, 60)
DurationParts(seconds) ==
    LET days == seconds \div (3600 * 24)
        r1 == seconds % (3600 * 24)
        hours == r1 \div 3600
        r2 == r1 % 3600
    IN  [days |-> days, hours |-> hours, minutes |-> r2 \div 60, seconds |-> r2 % 60]

\* The format spec :02 pads with a zero to two digits.
Pad2(n) == IF n < 10 THEN "0" \o ToString(n) ELSE ToString(n)

\* f"{days}-{hours:02}:{minutes:02}:{seconds:02}"
format_duration(seconds) ==
    LET d == DurationParts(seconds)
    IN  ToString(d.days) \o "-" \o Pad2(d.hours) \o ":" \o Pad2(d.minutes)
            \o ":" \o Pad2(d.seconds)

-----------------------------------------------------------------------------
(* runners.py: SBatchRunner.execute *)

job_output_directory == "jobs"

\* The outer loop nest: for input in inputs, for ncores in cores.
BatchOuter(s) ==
    Concat([i \in 1..Len(s.inputs) |-> [n \in 1..Len(s.cores) |-> [input |-> i, core |-> n]]])

\* A slip of the inner loop nest: configs iterated outside threads-per-rank.
BatchInnerConfigOutermost(s) ==
    Concat([c \in 1..Len(s.configs) |->
      Concat([t \in 1..Len(s.threads_per_rank) |->
        [sd \in 1..Len(s.seeds) |-> [threads |-> t, config |-> c, seed |-> sd]]])])

\* The inner loop nest: threads-per-rank, then configs, then seeds.
BatchInner(s) ==
    Concat([t \in 1..Len(s.threads_per_rank) |->
      Concat([c \in 1..Len(s.configs) |->
        [sd \in 1..Len(s.seeds) |-> [threads |-> t, config |-> c, seed |-> sd]]])])

\* tasks_per_node: the suite's when set (truthy), else the runner's.
TasksPerNode(s, r) == IF s.tasks_per_node # 0 THEN s.tasks_per_node ELSE r.tasks_per_node

\* A slip of get_input_time_limit: the per-input override is not looked up.
JobTimeLimitNoOverride(s, r, input) ==
    IF s.time_limit = 0 THEN r.time_limit ELSE s.time_limit

\* job_time_limit = suite.get_input_time_limit(input.name); if not job_time_limit:
\* job_time_limit = self.time_limit
JobTimeLimit(s, r, input) ==
    LET job_time_limit == get_input_time_limit(s, InputName(input))
    IN  IF job_time_limit = 0 THEN r.time_limit ELSE job_time_limit

RECURSIVE SumSeq(_)
SumSeq(nums) == IF nums = <<>> THEN 0 ELSE Head(nums) + SumSeq(Tail(nums))

\* One command of a job script: the values substituted into the command template,
\* and the suite's dict as make_cmd_for_config leaves it.
BatchCommand(s, r, o, in) ==
    LET ncores == s.cores[o.core]
        threads_per_rank == s.threads_per_rank[in.threads]
        mpi_ranks == ncores \div threads_per_rank
        jobname == InputName(s.inputs[o.input]) \o "-np" \o ToString(mpi_ranks)
                       \o "-t" \o ToString(threads_per_rank)
        config_jobname == jobname \o "-c" \o ToString(in.config - 1)
                              \o "-s" \o ToString(s.seeds[in.seed])
        made == make_cmd_for_config(r, s, s.inputs[o.input], config_jobname, mpi_ranks,
                                    threads_per_rank, s.seeds[in.seed], s.configs[in.config])
    IN  [jobname |-> config_jobname,
         cmd |-> made.cmd.value,
         config |-> made.config,
         mpi_ranks |-> mpi_ranks,
         threads_per_rank |-> threads_per_rank,
         ranks_per_node |-> TasksPerNode(s, r) \div threads_per_rank,
         timeout |-> JobTimeLimit(s, r, s.inputs[o.input]) * 60]

\* The job script of one (input, core-count) pair: the values substituted into the
\* sbatch template, and the file it is written to.
JobScript(s, r, o) ==
    LET input_name == InputName(s.inputs[o.input])
        ncores == s.cores[o.core]
        tasks_per_node == TasksPerNode(s, r)
        aggregate_jobname == s.name \o "-" \o input_name \o "-cores" \o ToString(ncores)
        nodes == required_nodes(ncores, tasks_per_node)
        inner == BatchInner(s) \o <<>>
        time_limit == SumSeq([k \in 1..Len(inner) |->
                                 JobTimeLimit(s, r, s.inputs[o.input])] \o <<>>)
    IN  [job_file |-> job_output_directory \o "/" \o aggregate_jobname,
         job_name |-> aggregate_jobname,
         nodes |-> nodes,
         ntasks |-> ncores,
         ntasks_per_node |-> tasks_per_node,
         output_log |-> output_directory \o "/" \o input_name \o "-cores"
                            \o ToString(ncores) \o "-log.txt",
         error_output_log |-> output_directory \o "/" \o input_name \o "-cores"
                                  \o ToString(ncores) \o "-error-log.txt",
         job_queue |-> get_queue(r.cls, ncores, tasks_per_node, r.use_test_partition),
         islands |-> required_islands(r.cls, nodes),
         commands |-> [k \in 1..Len(inner) |-> BatchCommand(s, r, o, inner[k])] \o <<>>,
         time_string |-> format_duration(time_limit * 60)]

\* The suite's configs after the inner loops of one (input, core-count) pair: each
\* dict as the last call of make_cmd_for_config on it left it.
BatchConfigsAfter(s, r, o) ==
    LET inner == BatchInner(s) \o <<>>
        last(c) == CHOOSE k \in 1..Len(inner) :
                      /\ inner[k].config = c
                      /\ \A l \in (k + 1)..Len(inner) : inner[l].config # c
    IN  [c \in 1..Len(s.configs) |->
            IF \E k \in 1..Len(inner) : inner[k].config = c
            THEN BatchCommand(s, r, o, inner[last(c)]).config
            ELSE s.configs[c]] \o <<>>

\* Whether building the commands of one (input, core-count) pair ends the process:
\* input.args is called once per inner iteration.
BatchArgsExits(s, o) ==
    \E t \in 1..Len(s.threads_per_rank) :
        /\ s.configs # <<>> /\ s.seeds # <<>>
        /\ ArgsExits(s.inputs[o.input], s.cores[o.core] \div s.threads_per_rank[t])

SBatchWriteConfig ==
    /\ pc = "start"
    /\ runner.cls \in SBatchClasses
    /\ written' = Append(written, ConfigJson)
    /\ njobs' = 0
    /\ pc' = "loop"
    /\ UNCHANGED <<suite, runner, next_job, running, executed, summary, scripts, built,
                   loadVars, placeVars, selectVars, callVars, heapVars>>

SBatchArgsExit ==
    /\ pc = "loop"
    /\ runner.cls \in SBatchClasses
    /\ LET outer == BatchOuter(suite)
       IN  /\ next_job <= Len(outer)
           /\ BatchArgsExits(suite, outer[next_job])
    /\ pc' = "exited"
    /\ UNCHANGED <<suite, runner, next_job, running, executed, written, summary, scripts,
                   njobs, built, loadVars, placeVars, selectVars, callVars, heapVars>>

\* One iteration of the outer loops: the script is rendered, written to
\* <job_output_directory>/<suite>-<input>-cores<N> and counted.
SBatchWriteScript ==
    /\ pc = "loop"
    /\ runner.cls \in SBatchClasses
    /\ LET outer == BatchOuter(suite)
       IN  /\ next_job <= Len(outer)
           /\ ~BatchArgsExits(suite, outer[next_job])
           /\ LET script == JobScript(suite, runner, outer[next_job])
              IN  /\ scripts' = Append(scripts, script)
                  /\ written' = Append(written, script.job_file)
           /\ suite' = [suite EXCEPT
                            !.configs = BatchConfigsAfter(suite, runner, outer[next_job])]
    /\ njobs' = njobs + 1
    /\ next_job' = next_job + 1
    /\ UNCHANGED <<runner, pc, running, executed, summary, built,
                   loadVars, placeVars, selectVars, callVars, heapVars>>

\* print(f"Created {njobs} job files in directory ...")
SBatchEnd ==
    /\ pc = "loop"
    /\ runner.cls \in SBatchClasses
    /\ next_job > Len(BatchOuter(suite))
    /\ summary' = <<njobs>>
    /\ pc' = "done"
    /\ UNCHANGED <<suite, runner, next_job, running, executed, written, scripts, njobs, built,
                   loadVars, placeVars, selectVars, callVars, heapVars>>

NextSBatch == SBatchWriteConfig \/ SBatchArgsExit \/ SBatchWriteScript \/ SBatchEnd

\* SBatchRunner.__init__ and the subclasses' __init__.
SBatchRunner(cls, tasks_per_node, time_limit, use_test_partition, omit_json_output_path, omit_seed) ==
    [cls |-> cls, machine |-> "", max_cores |-> 0, failed |-> 0, total_jobs |-> 0,
     tasks_per_node |-> DefaultTasksPerNode(cls, tasks_per_node),
     time_limit |-> time_limit, use_test_partition |-> use_test_partition,
     omit_json_output_path |-> omit_json_output_path, omit_seed |-> omit_seed]

BatchCoreLists == {<<>>, <<4>>, <<4, 193>>, <<769, 2>>}
TimeLimitMaps == {<<>>, ("g" :> 720), ("g" :> 0)}

InitSBatch ==
    /\ IdleLoad /\ IdlePlace /\ IdleSelect /\ IdleCall /\ IdleHeap
    /\ suite \in {Suite(i, c, n, sd, t, tpn, tl, m) :
                     i \in InputLists, c \in ConfigLists, n \in BatchCoreLists,
                     sd \in SeedLists, t \in ThreadLists, tpn \in {0, 1},
                     tl \in {0, 30}, m \in TimeLimitMaps}
    /\ runner \in {SBatchRunner(cls, 0, 20, test, FALSE, FALSE) :
                      cls \in SBatchClasses, test \in BOOLEAN}
    /\ pc = "start"
    /\ next_job = 1
    /\ running = {}
    /\ executed = <<>>
    /\ written = <<>>
    /\ summary = <<>>
    /\ scripts = <<>>
    /\ njobs = 0
    /\ built = <<>>

SpecSBatch == InitSBatch /\ [][NextSBatch]_vars

-----------------------------------------------------------------------------
(* Claims about SBatchRunner.execute *)

InnerCount(s) == Len(s.threads_per_rank) * Len(s.configs) * Len(s.seeds)

\* The (input, core-count) pair of the k-th job script, by positions in the suite.
PairInput(s, k) == s.inputs[((k - 1) \div Len(s.cores)) + 1]
PairCores(s, k) == s.cores[((k - 1) % Len(s.cores)) + 1]

JobNameOf(s, input, ncores, t, c, sd) ==
    InputName(input) \o "-np" \o ToString(ncores \div s.threads_per_rank[t])
        \o "-t" \o ToString(s.threads_per_rank[t]) \o "-c" \o ToString(c - 1)
        \o "-s" \o ToString(s.seeds[sd])

\* C6: SBatchRunner.execute writes one job-script file per (input, core-count) pair,
\* named <suite>-<input>-cores<N>, and reports |inputs| * |cores| job files; each
\* script holds |threads_per_rank| * |configs| * |seeds| command lines, ordered with
\* threads-per-rank outermost, then config index, then seed innermost; the runner
\* executes no command.
C6_OneScriptPerInputAndCores ==
    runner.cls \in SBatchClasses =>
        /\ executed = <<>> /\ running = {}
        /\ njobs = Len(scripts)
        /\ Len(written) = Len(scripts) + (IF pc = "start" THEN 0 ELSE 1)
        /\ \A k \in 1..Len(scripts) :
              /\ scripts[k].job_file =
                    job_output_directory \o "/" \o suite.name \o "-"
                        \o InputName(PairInput(suite, k)) \o "-cores"
                        \o ToString(PairCores(suite, k))
              /\ written[k + 1] = scripts[k].job_file
              /\ \A l \in 1..Len(scripts) : l # k => scripts[l].job_file # scripts[k].job_file
              /\ Len(scripts[k].commands) = InnerCount(suite)
              /\ \A t \in 1..Len(suite.threads_per_rank), c \in 1..Len(suite.configs),
                   sd \in 1..Len(suite.seeds) :
                    scripts[k].commands[((t - 1) * Len(suite.configs) + (c - 1))
                                            * Len(suite.seeds) + sd].jobname
                        = JobNameOf(suite, PairInput(suite, k), PairCores(suite, k), t, c, sd)
        /\ pc = "done" =>
              /\ Len(scripts) = Len(suite.inputs) * Len(suite.cores)
              /\ summary = <<Len(suite.inputs) * Len(suite.cores)>>

\* Two inputs and two core counts gave four scripts of eight commands each.
C6_Witness ==
    /\ pc = "done"
    /\ runner.cls \in SBatchClasses
    /\ summary = <<4>>
    /\ Len(scripts[4].commands) = 8

ScriptSeconds(s, k, limit) == 60 * InnerCount(s) * limit

\* C7 as stated: the wall-clock limit of a job script is the sum over its inner jobs of
\* the per-job limit, which is the input's override when the suite's per-input map has
\* an entry for the input's name and otherwise the runner's default time limit;
\* rendered from seconds as days-HH:MM:SS.
C7_OverrideElseRunnerDefault ==
    \A k \in 1..Len(scripts) :
        LET name == InputName(PairInput(suite, k))
            limit == IF name \in DOMAIN suite.input_time_limit
                     THEN suite.input_time_limit[name]
                     ELSE runner.time_limit
        IN  scripts[k].time_string = format_duration(ScriptSeconds(suite, k, limit))

\* C7, amended: the per-job limit is what get_input_time_limit returns (the input's
\* override when the per-input map has an entry for the input's name, otherwise the
\* suite's own time_limit), and the runner's default only when that value is unset or
\* zero. The script's limit is the sum of the per-job limits over its inner jobs, in
\* seconds, rendered as days-HH:MM:SS with hours < 24, minutes < 60, seconds < 60;
\* each command's timeout is its per-job limit in seconds.
C7_OverrideElseSuiteElseRunnerDefault ==
    \A k \in 1..Len(scripts) :
        LET name == InputName(PairInput(suite, k))
            fromSuite == IF name \in DOMAIN suite.input_time_limit
                         THEN suite.input_time_limit[name]
                         ELSE suite.time_limit
            limit == IF fromSuite # 0 THEN fromSuite ELSE runner.time_limit
            secs == ScriptSeconds(suite, k, limit)
            d == DurationParts(secs)
        IN  /\ scripts[k].time_string = format_duration(secs)
            /\ scripts[k].time_string =
                  ToString(d.days) \o "-" \o Pad2(d.hours) \o ":" \o Pad2(d.minutes)
                      \o ":" \o Pad2(d.seconds)
            /\ d.days * 86400 + d.hours * 3600 + d.minutes * 60 + d.seconds = secs
            /\ d.days >= 0 /\ d.hours \in 0..23 /\ d.minutes \in 0..59 /\ d.seconds \in 0..59
            /\ \A j \in 1..Len(scripts[k].commands) :
                  scripts[k].commands[j].timeout = limit * 60

\* A script of four jobs on an input whose override is 720 minutes, in a suite whose
\* own time_limit is 30: two days.
C7_Witness ==
    /\ Len(scripts) >= 1
    /\ suite.time_limit = 30
    /\ "g" \in DOMAIN suite.input_time_limit
    /\ Len(scripts[1].commands) = 4
    /\ scripts[1].time_string = "2-00:00:00"

\* C8: HorekaRunner picks 'dev_cpuonly' (test partition) or 'cpuonly' up to 12 nodes and
\* 'cpuonly' up to 192 nodes; more than 192 nodes is a configuration error, and no
\* job script is written for that (input, core-count) pair.
C8_HorekaQueueSelection ==
    runner.cls = "HorekaRunner" =>
        \A k \in 1..Len(scripts) :
            /\ scripts[k].nodes <= 192
            /\ scripts[k].job_queue =
                  IF scripts[k].nodes <= 12 /\ runner.use_test_partition
                  THEN "dev_cpuonly" ELSE "cpuonly"

-----------------------------------------------------------------------------
(* runners.py: the placement of one job script, as SBatchRunner.execute computes it *)

InitPlace ==
    /\ IdleLoad /\ IdleSweep /\ IdleSelect /\ IdleCall /\ IdleHeap
    /\ place \in {[done |-> FALSE, cls |-> c, cores |-> n, tasks_per_node |-> t,
                   use_test_partition |-> b, nodes |-> 0, job_queue |-> "", islands |-> 0] :
                     c \in SBatchClasses, n \in 0..MaxCoreCount, t \in {1, 2, 48, 76},
                     b \in BOOLEAN}

\* nodes = self.required_nodes(ncores, tasks_per_node); subs["job_queue"] =
\* self.get_queue(ncores, tasks_per_node, self.use_test_partition); subs["islands"] =
\* self.required_islands(nodes)
Place ==
    /\ ~place.done
    /\ LET nodes == required_nodes(place.cores, place.tasks_per_node)
       IN  place' = [place EXCEPT
                        !.done = TRUE,
                        !.nodes = nodes,
                        !.job_queue = get_queue(place.cls, place.cores, place.tasks_per_node,
                                                place.use_test_partition),
                        !.islands = required_islands(place.cls, nodes)]
    /\ UNCHANGED <<loadVars, sweepVars, selectVars, callVars, heapVars>>

NextPlace == Place

SpecPlace == InitPlace /\ [][NextPlace]_vars

\* C10: for SuperMUCRunner, nodes = max(ceil(cores / tasks_per_node), 1); the queue is
\* 'test' (test partition requested) or 'micro' up to 16 nodes, 'general' up to 768
\* nodes and 'large' above; islands is 2 above 768 nodes and 1 otherwise; so the queue
\* is 'large' exactly when islands = 2.
C10_SuperMUCPlacement ==
    place.done /\ place.cls = "SuperMUCRunner" =>
        /\ place.nodes >= 1
        /\ place.nodes * place.tasks_per_node >= place.cores
        /\ place.nodes > 1 => (place.nodes - 1) * place.tasks_per_node < place.cores
        /\ place.job_queue =
              IF place.nodes <= 16
              THEN (IF place.use_test_partition THEN "test" ELSE "micro")
              ELSE IF place.nodes <= 768 THEN "general" ELSE "large"
        /\ place.islands = IF place.nodes > 768 THEN 2 ELSE 1
        /\ place.job_queue = "large" <=> place.islands = 2

\* 1537 cores at 2 tasks per node: 769 nodes, queue 'large', 2 islands.
C10_Witness ==
    /\ place.done
    /\ place.cls = "SuperMUCRunner"
    /\ place.cores = 1537 /\ place.tasks_per_node = 2
    /\ place.nodes = 769
    /\ place.job_queue = "large"
    /\ place.islands = 2

-----------------------------------------------------------------------------
(* runners.py: get_runner *)

\* Python's `a in b` on strings: a occurs in b as a substring (the empty string
\* occurs in every string).
StrIn(a, b) ==
    \E i \in 1..(Len(b) - Len(a) + 1) : SubSeq(b, i, i + Len(a) - 1) = a

\* The if/elif chain of get_runner: == "shared", in "supermuc", in "horeka",
\* == "generic-job-file", else exit(...).
get_runner(machine) ==
    IF machine = "shared" THEN "SharedMemoryRunner"
    ELSE IF StrIn(machine, "supermuc") THEN "SuperMUCRunner"
    ELSE IF StrIn(machine, "horeka") THEN "HorekaRunner"
    ELSE IF machine = "generic-job-file" THEN "GenericDistributedMemoryRunner"
    ELSE "exit"

SupportedMachines == {"shared", "supermuc", "horeka", "generic-job-file"}

Substrings(str) == {SubSeq(str, i, j) : i \in 1..Len(str), j \in 0..Len(str)}

MachineNames ==
    UNION {Substrings(m) : m \in SupportedMachines}
        \cup {"cluster", "supermuc-ng", "horeka2", "Shared", "generic"}

InitSelect ==
    /\ IdleLoad /\ IdleSweep /\ IdlePlace /\ IdleCall /\ IdleHeap
    /\ args_machine \in MachineNames
    /\ selected = "none"

GetRunner ==
    /\ selected = "none"
    /\ selected' = get_runner(args_machine)
    /\ UNCHANGED <<args_machine, loadVars, sweepVars, placeVars, callVars, heapVars>>

NextSelect == GetRunner

SpecSelect == InitSelect /\ [][NextSelect]_vars

\* C9: get_runner terminates the process for every machine name other than 'shared',
\* 'supermuc', 'horeka' and 'generic-job-file': no unknown name (the empty string and
\* fragments of supported names included) yields a runner.
C9_UnknownMachineIsFatal ==
    selected # "none" /\ args_machine \notin SupportedMachines => selected = "exit"

-----------------------------------------------------------------------------
(* expcore.py: FileInputGraph.args *)

PartitionMaps ==
    {<<>>, (2 :> "h.2.part"), (2 :> "h.2.part") @@ (4 :> "h.4.part"), (3 :> "h.3.part"),
     (2 :> "")}

ArgsInputs == {FileInput("h", b, m) : b \in BOOLEAN, m \in PartitionMaps}

NotCalled == [returns |-> FALSE, exit_status |-> 0, value |-> <<>>, lookups |-> <<>>]

InitArgs ==
    /\ IdleLoad /\ IdleSweep /\ IdlePlace /\ IdleSelect /\ IdleHeap
    /\ call \in {[fn |-> "FileInputGraph.args", done |-> FALSE, input |-> i,
                  mpi_ranks |-> r, threads_per_rank |-> t, escape |-> e,
                  result |-> NotCalled] :
                    i \in ArgsInputs, r \in 0..MaxRanks, t \in {1, 2}, e \in BOOLEAN}

CallArgs ==
    /\ call.fn = "FileInputGraph.args"
    /\ ~call.done
    /\ call' = [call EXCEPT
                   !.done = TRUE,
                   !.result = FileInputGraph_args(call.input, call.mpi_ranks,
                                                  call.threads_per_rank, call.escape)]
    /\ UNCHANGED <<loadVars, sweepVars, placeVars, selectVars, heapVars>>

NextArgs == CallArgs

SpecArgs == InitArgs /\ [][NextArgs]_vars

\* C11: FileInputGraph.args on a partitioned input with mpi_ranks > 1 returns only if
\* the partition map has an entry for exactly that rank count (and a non-empty one),
\* and then the arguments are the file arguments followed by '--partitioning' and that
\* entry; with no entry for that rank count the process ends with exit status 1 and
\* nothing is returned. On an input that is not partitioned, or with mpi_ranks <= 1,
\* the partition map is not looked up, the call returns and the arguments have no
\* '--partitioning'.
C11_PartitionForExactRankCount ==
    call.fn = "FileInputGraph.args" /\ call.done =>
        LET input == call.input
            ranks == call.mpi_ranks
            res == call.result
            file_args == <<"--graphtype", "BRAIN", "--infile_dir", input.path>>
            has_entry == ranks \in DOMAIN input.partitions
            entry == IF has_entry THEN input.partitions[ranks] ELSE ""
        IN  /\ res.returns <=> res.exit_status = 0
            /\ ~res.returns => res.exit_status = 1 /\ res.value = <<>>
            /\ ArgsExits(input, ranks) <=> ~res.returns
            /\ IF input.partitioned /\ ranks > 1
               THEN /\ res.lookups = <<ranks>>
                    /\ res.returns => has_entry
                    /\ res.returns <=> entry # ""
                    /\ res.returns =>
                          /\ res.value = file_args \o <<"--partitioning", entry>>
                          /\ SubSeq(res.value, Len(res.value) - 1, Len(res.value))
                                = <<"--partitioning", input.partitions[ranks]>>
                    /\ ~has_entry => ~res.returns /\ res.exit_status = 1
               ELSE /\ res.lookups = <<>>
                    /\ res.returns
                    /\ res.value = file_args
                    /\ \A k \in 1..Len(res.value) : res.value[k] # "--partitioning"

\* A partitioned input with entries for 2 and 4 ranks, asked on 4 ranks, gave the
\* 4-rank partition file.
C11_Witness ==
    /\ call.fn = "FileInputGraph.args" /\ call.done
    /\ call.input.partitioned
    /\ call.mpi_ranks = 4
    /\ DOMAIN call.input.partitions = {2, 4}
    /\ call.result.returns
    /\ call.result.value[Len(call.result.value)] = "h.4.part"

\* A partitioned input with an entry for 2 ranks only, asked on 4 ranks, ended the
\* process.
C11_WitnessExit ==
    /\ call.fn = "FileInputGraph.args" /\ call.done
    /\ call.input.partitioned
    /\ call.mpi_ranks = 4
    /\ DOMAIN call.input.partitions = {2}
    /\ ~call.result.returns
    /\ call.result.exit_status = 1

-----------------------------------------------------------------------------
(* expcore.py: params_to_flags *)

FlagNames == {"x", "k", "verbose", "seed"}
FlagValues ==
    {BoolVal(TRUE), BoolVal(FALSE), IntVal(5), IntVal(0), StrVal("v"), StrVal("True")}

\* Scalar configurations: mappings (no key twice) of up to MaxFields fields.
FlagConfigs ==
    {params \in SeqsUpTo({Field(k, v) : k \in FlagNames, v \in FlagValues}, MaxFields) :
        \A i, j \in 1..Len(params) : params[i].k = params[j].k => i = j}

InitFlags ==
    /\ IdleLoad /\ IdleSweep /\ IdlePlace /\ IdleSelect /\ IdleHeap
    /\ call \in {[fn |-> "params_to_flags", done |-> FALSE, params |-> c, flags |-> <<>>] :
                    c \in FlagConfigs}

CallParamsToFlags ==
    /\ call.fn = "params_to_flags"
    /\ ~call.done
    /\ call' = [call EXCEPT !.done = TRUE, !.flags = params_to_flags(call.params)]
    /\ UNCHANGED <<loadVars, sweepVars, placeVars, selectVars, heapVars>>

NextFlags == CallParamsToFlags

SpecFlags == InitFlags /\ [][NextFlags]_vars

\* The number of tokens a field gives, and where the tokens of field j start.
TokenCount(field) ==
    IF field.v.t = "bool" THEN (IF field.v = BoolVal(TRUE) THEN 1 ELSE 0) ELSE 2
RECURSIVE TokensBefore(_, _)
TokensBefore(params, j) ==
    IF j <= 1 THEN 0 ELSE TokensBefore(params, j - 1) + TokenCount(params[j - 1])
Dashes(name) == IF Len(name) = 1 THEN "-" ELSE "--"

\* C12: params_to_flags renders a scalar configuration field by field in mapping
\* order: a boolean true gives the bare flag, a boolean false gives nothing, any other
\* value gives the flag followed by its stringified value as a separate token; the flag
\* has one dash when the field name has one character and two when it has more.
C12_FlagsFieldByField ==
    call.fn = "params_to_flags" /\ call.done =>
        LET params == call.params
            flags == call.flags
        IN  /\ Len(flags) = TokensBefore(params, Len(params) + 1)
            /\ \A j \in 1..Len(params) :
                  LET at == TokensBefore(params, j)
                      name == Dashes(params[j].k) \o params[j].k
                  IN  /\ TokenCount(params[j]) >= 1 => flags[at + 1] = name
                      /\ TokenCount(params[j]) = 2 => flags[at + 2] = params[j].v.s
                      /\ params[j].v = BoolVal(FALSE) =>
                            \A k \in 1..Len(flags) : flags[k] # name
                      /\ params[j].v = BoolVal(TRUE) =>
                            Cardinality({k \in 1..Len(flags) : flags[k] = name}) = 1

\* {x: 5, verbose: true} gave ["-x", "5", "--verbose"].
C12_Witness ==
    /\ call.fn = "params_to_flags" /\ call.done
    /\ call.params = <<Field("x", IntVal(5)), Field("verbose", BoolVal(TRUE))>>
    /\ call.flags = <<"-x", "5", "--verbose">>

-----------------------------------------------------------------------------
(* expcore.py: KaGenGraph *)

\* Keyword arguments of KaGenGraph: nums holds the keys among N, n, M, m that are
\* given, each with <<>> (None) or <<k>> (the integer k); scale_weak is <<>> when the
\* key is not given and <<b>> otherwise; rest holds the other keys, in order.
HasKey(fields, key) == \E j \in 1..Len(fields) : fields[j].k = key

Truthy(opt) == opt # <<>> /\ opt[1] # 0

Raised(exception) == [ok |-> FALSE, raised |-> exception, self |-> <<>>]

\* KaGenGraph.__init__.  The default of kwargs.get("n", 1 << int(kwargs["N"])) is
\* computed before get is called: a missing N is a KeyError (not caught), N = None a
\* TypeError (caught, self.n = None); likewise for M and m.
KaGenGraph(kwargs) ==
    LET nums == kwargs.nums
        size(exponent, direct) ==
            IF nums[exponent] = <<>> THEN <<>>
            ELSE IF direct \in DOMAIN nums THEN nums[direct]
            ELSE <<2 ^ nums[exponent][1]>>
    IN  IF ~HasKey(kwargs.rest, "type") THEN Raised("ValueError")
        ELSE IF "N" \notin DOMAIN nums THEN Raised("KeyError")
        ELSE IF "M" \notin DOMAIN nums THEN Raised("KeyError")
        ELSE [ok |-> TRUE, raised |-> "",
              self |-> [n |-> size("N", "n"), m |-> size("M", "m"),
                        scale_weak |-> IF kwargs.scale_weak = <<>> THEN FALSE
                                       ELSE kwargs.scale_weak[1],
                        params |-> kwargs.rest]]

\* KaGenGraph.get_n / get_m
get_n(self, p) == IF self.scale_weak THEN self.n[1] * p ELSE self.n[1]
get_m(self, p) == IF self.scale_weak THEN self.m[1] * p ELSE self.m[1]

\* KaGenGraph.stringify_params: a bool gives its key, any other value key=value.
stringify_params(self) ==
    [j \in 1..Len(self.params) |->
        IF self.params[j].v.t = "bool" THEN self.params[j].k
        ELSE self.params[j].k \o "=" \o self.params[j].v.s] \o <<>>

\* sep.join(strings)
RECURSIVE Join(_, _)
Join(strings, sep) ==
    IF strings = <<>> THEN ""
    ELSE IF Len(strings) = 1 THEN strings[1]
    ELSE strings[1] \o sep \o Join(Tail(strings), sep)

\* A slip of KaGenGraph.args: the size scales with the rank count alone.
KaGenGraph_argsRanksOnly(self, mpi_ranks, threads_per_rank, escape) ==
    LET p == mpi_ranks
        params == stringify_params(self)
                      \o (IF Truthy(self.n) THEN <<"n=" \o ToString(get_n(self, p))>> ELSE <<>>)
                      \o (IF Truthy(self.m) THEN <<"m=" \o ToString(get_m(self, p))>> ELSE <<>>)
        kagen_option_string == Join(params, ";")
    IN  [value |-> <<"--kagen_option_string",
                     IF escape THEN "\"" \o kagen_option_string \o "\""
                     ELSE kagen_option_string>>,
         params |-> params,
         self |-> self]

\* KaGenGraph.args: p = mpi_ranks * threads_per_rank, the stringified parameters
\* followed by n=<get_n(p)> and m=<get_m(p)> where set, joined by ";" and quoted on
\* escape.  The receiver is given back as the call leaves it.
KaGenGraph_args(self, mpi_ranks, threads_per_rank, escape) ==
    LET p == mpi_ranks * threads_per_rank
        params == stringify_params(self)
                      \o (IF Truthy(self.n) THEN <<"n=" \o ToString(get_n(self, p))>> ELSE <<>>)
                      \o (IF Truthy(self.m) THEN <<"m=" \o ToString(get_m(self, p))>> ELSE <<>>)
        kagen_option_string == Join(params, ";")
    IN  [value |-> <<"--kagen_option_string",
                     IF escape THEN "\"" \o kagen_option_string \o "\""
                     ELSE kagen_option_string>>,
         params |-> params,
         self |-> self]

\* int(math.log2(n)) for n >= 1
RECURSIVE IntLog2(_)
IntLog2(n) == IF n <= 1 THEN 0 ELSE 1 + IntLog2(n \div 2)

\* slugify.slugify on ASCII text: lower case, every run of characters other than
\* letters and digits becomes one "-", and none is left at either end.
LowerCase == "abcdefghijklmnopqrstuvwxyz"
UpperCase == "ABCDEFGHIJKLMNOPQRSTUVWXYZ"
Digits == "0123456789"
CharIndex(c, alphabet) ==
    LET at == {i \in 1..Len(alphabet) : SubSeq(alphabet, i, i) = c}
    IN  IF at = {} THEN 0 ELSE CHOOSE i \in at : TRUE
SlugChar(c) ==
    IF CharIndex(c, LowerCase) # 0 \/ CharIndex(c, Digits) # 0 THEN c
    ELSE IF CharIndex(c, UpperCase) # 0
         THEN SubSeq(LowerCase, CharIndex(c, UpperCase), CharIndex(c, UpperCase))
         ELSE "-"
RECURSIVE SlugFrom(_, _, _)
SlugFrom(text, i, out) ==
    IF i > Len(text)
    THEN (IF out # "" /\ SubSeq(out, Len(out), Len(out)) = "-"
          THEN SubSeq(out, 1, Len(out) - 1) ELSE out)
    ELSE LET c == SlugChar(SubSeq(text, i, i))
         IN  IF c = "-" /\ (out = "" \/ SubSeq(out, Len(out), Len(out)) = "-")
             THEN SlugFrom(text, i + 1, out)
             ELSE SlugFrom(text, i + 1, out \o c)
slugify(text) == SlugFrom(text, 1, "")

\* KaGenGraph.name: "KaGen_" and, joined by "_", n=<log2 n>, m=<log2 m> where set,
\* the stringified parameters and "weak" when scaling weakly; slugified.
KaGenGraph_name(self) ==
    LET params == (IF Truthy(self.n) THEN <<"n=" \o ToString(IntLog2(self.n[1]))>> ELSE <<>>)
                      \o (IF Truthy(self.m) THEN <<"m=" \o ToString(IntLog2(self.m[1]))>>
                          ELSE <<>>)
                      \o stringify_params(self)
                      \o (IF self.scale_weak THEN <<"weak">> ELSE <<>>)
    IN  slugify("KaGen_" \o Join(params, "_"))

KaGenNums ==
    {nums \in UNION {[D -> {<<>>, <<0>>, <<3>>, <<5>>}] : D \in SUBSET {"N", "n", "M", "m"}} :
        /\ "m" \notin DOMAIN nums
        /\ "n" \in DOMAIN nums => nums["n"] = <<5>>
        /\ "N" \in DOMAIN nums => nums["N"] # <<5>>
        /\ "M" \in DOMAIN nums => nums["M"] \in {<<>>, <<3>>}}
KaGenRest ==
    {<<>>, <<Field("type", StrVal("rgg2d"))>>,
     <<Field("type", StrVal("gnm")), Field("directed", BoolVal(TRUE))>>}
KaGenKwargs ==
    {[nums |-> nums, scale_weak |-> w, rest |-> r] :
        nums \in KaGenNums, w \in {<<>>, <<TRUE>>, <<FALSE>>}, r \in KaGenRest}

NoGraph == [n |-> <<>>, m |-> <<>>, scale_weak |-> FALSE, params |-> <<>>]
NoArgs == [mpi_ranks |-> 0, threads_per_rank |-> 0, escape |-> FALSE, value |-> <<>>,
           params |-> <<>>]

InitKaGen ==
    /\ IdleLoad /\ IdleSweep /\ IdlePlace /\ IdleSelect /\ IdleHeap
    /\ call \in {[fn |-> "KaGenGraph", stage |-> "new", kwargs |-> k, raised |-> "",
                  self |-> NoGraph, first_name |-> "", name |-> "", asked |-> NoArgs] :
                    k \in KaGenKwargs}

\* KaGenGraph(**kwargs), and the name read from the new object.
ConstructKaGen ==
    /\ call.fn = "KaGenGraph"
    /\ call.stage = "new"
    /\ LET made == KaGenGraph(call.kwargs)
       IN  call' = IF made.ok
                   THEN [call EXCEPT !.stage = "built", !.self = made.self,
                                     !.first_name = KaGenGraph_name(made.self),
                                     !.name = KaGenGraph_name(made.self)]
                   ELSE [call EXCEPT !.stage = "failed", !.raised = made.raised]
    /\ UNCHANGED <<loadVars, sweepVars, placeVars, selectVars, heapVars>>

\* input.args(mpi_ranks, threads_per_rank, escape) for a job, and the name read after.
CallKaGenArgs ==
    /\ call.fn = "KaGenGraph"
    /\ call.stage \in {"built", "asked"}
    /\ \E r \in 0..MaxRanks, t \in {1, 2}, e \in BOOLEAN :
          LET res == KaGenGraph_args(call.self, r, t, e)
          IN  call' = [call EXCEPT
                          !.stage = "asked",
                          !.self = res.self,
                          !.name = KaGenGraph_name(res.self),
                          !.asked = [mpi_ranks |-> r, threads_per_rank |-> t, escape |-> e,
                                     value |-> res.value, params |-> res.params]]
    /\ UNCHANGED <<loadVars, sweepVars, placeVars, selectVars, heapVars>>

NextKaGen == ConstructKaGen \/ CallKaGenArgs

SpecKaGen == InitKaGen /\ [][NextKaGen]_vars

\* The option string without the quotes of escaping.
Unquoted(asked) ==
    IF asked.escape THEN SubSeq(asked.value[2], 2, Len(asked.value[2]) - 1)
    ELSE asked.value[2]
HasOption(asked, option) == StrIn(";" \o option \o ";", ";" \o Unquoted(asked) \o ";")
VertexOptions(asked) ==
    {j \in 1..Len(asked.params) :
        Len(asked.params[j]) >= 2 /\ SubSeq(asked.params[j], 1, 2) = "n="}

\* C13: for a KaGenGraph given its size as an exponent N, n0 = 2^N; with weak scaling
\* on, the vertex count in the generator option string for (mpi_ranks,
\* threads_per_rank) is n0 * mpi_ranks * threads_per_rank and get_n(p) = n0 * p; with
\* weak scaling off it is n0 for every parallelism; and the name of the input is the
\* same whatever parallelism was asked for, in either mode.
C13_KaGenSizing ==
    call.fn = "KaGenGraph" /\ call.stage \in {"built", "asked"} =>
        LET nums == call.kwargs.nums
            weak == call.kwargs.scale_weak = <<TRUE>>
            asked == call.asked
        IN  /\ call.name = call.first_name
            /\ call.self.scale_weak = weak
            /\ nums["N"] # <<>> /\ "n" \notin DOMAIN nums =>
                  LET n0 == 2 ^ nums["N"][1]
                      p == asked.mpi_ranks * asked.threads_per_rank
                  IN  /\ call.self.n = <<n0>>
                      /\ \A q \in 0..(2 * MaxRanks) :
                            get_n(call.self, q) = IF weak THEN n0 * q ELSE n0
                      /\ call.stage = "asked" =>
                            /\ asked.value[1] = "--kagen_option_string"
                            /\ Cardinality(VertexOptions(asked)) = 1
                            /\ HasOption(asked, "n=" \o ToString(IF weak THEN n0 * p ELSE n0))

\* A weakly scaled graph of 2^3 vertices asked on 5 ranks of 2 threads: n=80, and the
\* name still tells n=3.
C13_Witness ==
    /\ call.fn = "KaGenGraph" /\ call.stage = "asked"
    /\ call.kwargs.nums["N"] = <<3>> /\ "n" \notin DOMAIN call.kwargs.nums
    /\ call.self.scale_weak
    /\ call.asked.mpi_ranks = 5 /\ call.asked.threads_per_rank = 2
    /\ HasOption(call.asked, "n=80")
    /\ call.name = "kagen-n-3-m-3-type-rgg2d-weak"

-----------------------------------------------------------------------------
(* runners.py: the commands built by either runner's execute *)

CmdInputLists == {<<InputG>>, <<InputH, InputG>>}
CmdConfigLists ==
    { LoadConfigs([kind |-> "mapping",
                   items |-> << <<Field("a", ListVal(<<IntVal(1), IntVal(2)>>)),
                                  Field("b", StrVal("x"))>> >>]),
      << <<Field("seed", IntVal(7)), Field("v", BoolVal(TRUE))>>,
         <<Field("json_output_path", StrVal("mine.json"))>> >> }
CmdCoreLists == {<<2>>, <<4, 2>>}
CmdSeedLists == {<<3>>, <<1, 0>>}
CmdThreadLists == {<<1>>, <<1, 2>>}

InitCmd ==
    /\ IdleLoad /\ IdlePlace /\ IdleSelect /\ IdleCall /\ IdleHeap
    /\ suite \in {Suite(i, c, n, sd, t, 0, 0, <<>>) :
                     i \in CmdInputLists, c \in CmdConfigLists, n \in CmdCoreLists,
                     sd \in CmdSeedLists, t \in CmdThreadLists}
    /\ runner \in {SharedMemoryRunner(4, oj, os) : oj \in BOOLEAN, os \in BOOLEAN}
                     \cup {SBatchRunner(cls, 0, 20, FALSE, oj, os) :
                              cls \in SBatchClasses, oj \in BOOLEAN, os \in BOOLEAN}
    /\ runner.cls = "SharedMemoryRunner" =>
          Len(SharedJobs(suite, runner.max_cores)) <= MaxJobs
    /\ pc = "start"
    /\ next_job = 1
    /\ running = {}
    /\ executed = <<>>
    /\ written = <<>>
    /\ summary = <<>>
    /\ scripts = <<>>
    /\ njobs = 0
    /\ built = <<>>

NextCmd == NextShared \/ NextSBatch

SpecCmd == InitCmd /\ [][NextCmd]_vars

\* Every command built so far, with the job it was built for: by SharedMemoryRunner
\* the k-th command is that of the k-th iteration; by SBatchRunner the j-th command of
\* the k-th script is that of the j-th inner iteration of the k-th outer one.
BuiltCommands ==
    {[jobname |-> built[k].jobname, mpi_ranks |-> built[k].mpi_ranks, cmd |-> built[k].cmd,
      input |-> suite.inputs[SharedJobs(suite, runner.max_cores)[k].input],
      ncores |-> suite.cores[SharedJobs(suite, runner.max_cores)[k].core],
      threads |-> SharedJobs(suite, runner.max_cores)[k].threads,
      config |-> SharedJobs(suite, runner.max_cores)[k].config,
      seed |-> SharedJobs(suite, runner.max_cores)[k].seed] : k \in 1..Len(built)}
    \cup
    UNION {{[jobname |-> scripts[k].commands[j].jobname,
             mpi_ranks |-> scripts[k].commands[j].mpi_ranks,
             cmd |-> scripts[k].commands[j].cmd,
             input |-> PairInput(suite, k),
             ncores |-> PairCores(suite, k),
             threads |-> BatchInner(suite)[j].threads,
             config |-> BatchInner(suite)[j].config,
             seed |-> BatchInner(suite)[j].seed] : j \in 1..Len(scripts[k].commands)} :
           k \in 1..Len(scripts)}

EndsWith(str, suffix) ==
    Len(str) >= Len(suffix) /\ SubSeq(str, Len(str) - Len(suffix) + 1, Len(str)) = suffix
Occurrences(cmd, token) == {k \in 1..Len(cmd) : cmd[k] = token}
PairIn(cmd, flag, value) == \E k \in 1..(Len(cmd) - 1) : cmd[k] = flag /\ cmd[k + 1] = value
ValueOf(config, key) == config[CHOOSE j \in 1..Len(config) : config[j].k = key].v.s

\* No field injected for a job is left anywhere but in that job's command.
InjectedFieldsStayLocal ==
    /\ \A c \in 1..Len(suite.configs) : \A f \in 1..Len(suite.configs[c]) :
          ~EndsWith(suite.configs[c][f].v.s, "_timer.json")
    /\ \A b \in BuiltCommands :
          /\ \A k \in 1..Len(b.cmd) :
                EndsWith(b.cmd[k], "_timer.json") => b.cmd[k] = JsonOutputPath(b.jobname)
          /\ Cardinality(Occurrences(b.cmd, "--seed")) <= 1
          /\ Cardinality(Occurrences(b.cmd, "--json_output_path")) <= 1
          /\ ~HasKey(suite.configs[b.config], "seed") =>
                \A k \in Occurrences(b.cmd, "--seed") :
                    b.cmd[k + 1] = ToString(suite.seeds[b.seed])

\* C14: a runner's execute leaves the ExperimentSuite unchanged: no step of a
\* SharedMemoryRunner or SBatchRunner sweep changes suite.configs (any mapping or
\* field), inputs, cores, seeds or threads_per_rank; and the json_output_path and seed
\* fields injected for one job are found neither in the suite's configs nor in the
\* command of another job.
C14_ExecuteLeavesSuiteUnchanged ==
    [][suite' = suite]_vars /\ []InjectedFieldsStayLocal

\* A shared-memory sweep of eight jobs over two configs ended, each command built
\* with both fields injected.
C14_Witness ==
    /\ pc = "done"
    /\ runner.cls = "SharedMemoryRunner"
    /\ ~runner.omit_json_output_path /\ ~runner.omit_seed
    /\ Len(built) = 8
    /\ Len(suite.configs) = 2
    /\ PairIn(built[8].cmd, "--json_output_path", JsonOutputPath(built[8].jobname))

\* C16: for every job of either runner, mpi_ranks = core-count // threads-per-rank; the
\* command carries json_output_path = <output-dir>/<input>-np<ranks>-t<threads>-
\* c<config-index>-s<seed>_timer.json exactly when omit_json_output_path is false, and
\* seed = the job's seed exactly when omit_seed is false; with a flag suppressed the
\* field is not in the command, unless the suite's own config has it (and then with
\* the config's value).
C16_CommandCarriesJobFields ==
    \A b \in BuiltCommands :
        LET threads == suite.threads_per_rank[b.threads]
            seed == suite.seeds[b.seed]
            config == suite.configs[b.config]
            name == InputName(b.input) \o "-np" \o ToString(b.ncores \div threads)
                        \o "-t" \o ToString(threads) \o "-c" \o ToString(b.config - 1)
                        \o "-s" \o ToString(seed)
            path == output_directory \o "/" \o name \o "_timer.json"
        IN  /\ b.mpi_ranks = b.ncores \div threads
            /\ b.jobname = name
            /\ b.cmd[1] = AppPath(suite.executable)
            /\ Cardinality(Occurrences(b.cmd, path))
                  = IF runner.omit_json_output_path THEN 0 ELSE 1
            /\ ~runner.omit_json_output_path => PairIn(b.cmd, "--json_output_path", path)
            /\ runner.omit_json_output_path =>
                  IF HasKey(config, "json_output_path")
                  THEN PairIn(b.cmd, "--json_output_path", ValueOf(config, "json_output_path"))
                  ELSE Occurrences(b.cmd, "--json_output_path") = {}
            /\ ~runner.omit_seed => PairIn(b.cmd, "--seed", ToString(seed))
            /\ runner.omit_seed =>
                  IF HasKey(config, "seed")
                  THEN PairIn(b.cmd, "--seed", ValueOf(config, "seed"))
                  ELSE Occurrences(b.cmd, "--seed") = {}
            /\ Cardinality(Occurrences(b.cmd, "--seed")) <= 1

\* A batch script was written by a runner that omits the seed but not the JSON path:
\* its first command has the path of its job and no seed.
C16_Witness ==
    /\ runner.cls \in SBatchClasses
    /\ runner.omit_seed /\ ~runner.omit_json_output_path
    /\ Len(scripts) >= 1
    /\ Len(scripts[1].commands) = 8
    /\ ~HasKey(suite.configs[1], "seed")
    /\ PairIn(scripts[1].commands[1].cmd, "--json_output_path",
              JsonOutputPath(scripts[1].commands[1].jobname))
    /\ Occurrences(scripts[1].commands[1].cmd, "--seed") = {}

-----------------------------------------------------------------------------
(* The order of explode's results *)

\* The number of results the list-valued fields after field j stand for.
RECURSIVE LaterProduct(_, _)
LaterProduct(config, j) ==
    IF j >= Len(config) THEN 1
    ELSE (IF IsList(config[j + 1].v) THEN Len(config[j + 1].v.l) ELSE 1)
             * LaterProduct(config, j + 1)

\* The choice the k-th result stands for when the first list-valued field varies
\* slowest and each field follows the order of its list.
LexChoice(config, k) ==
    [j \in ListFields(config) |->
        (((k - 1) \div LaterProduct(config, j)) % Len(config[j].v.l)) + 1]

FlatNonEmptyLists(config) ==
    \A j \in ListFields(config) :
        /\ config[j].v.l # <<>>
        /\ \A a \in 1..Len(config[j].v.l) : ~IsList(config[j].v.l[a])

\* C15: explode returns its results in the order fixed by field-encounter order: the
\* first list-valued field of the mapping varies slowest and later list-valued fields
\* vary faster, each following the order of its list (the k-th result is the k-th
\* combination in that order), and a second call on the same mapping gives every
\* configuration the same index.
C15_ExplodeOrder ==
    /\ lpc # "init" /\ FlatNonEmptyLists(cfg_in) =>
          /\ Len(exploded) = LaterProduct(cfg_in, 0)
          /\ \A k \in 1..Len(exploded) : exploded[k] = Pick(cfg_in, LexChoice(cfg_in, k))
    /\ lpc # "init" /\ ListFields(cfg_in) # {} =>
          LET first == Min(ListFields(cfg_in))
              list == cfg_in[first].v.l
          IN  list # <<>> /\ (\A a \in 1..Len(list) : ~IsList(list[a])) =>
                  /\ Len(exploded) % Len(list) = 0
                  /\ \A k \in 1..Len(exploded) :
                        exploded[k][first].v
                            = list[((k - 1) \div (Len(exploded) \div Len(list))) + 1]
    /\ lpc = "loaded" /\ yaml_config = [kind |-> "mapping", items |-> <<cfg_in>>] =>
          suite_configs = exploded

\* The spec's example: {a: [1, 2], b: "x", c: [true, false]} gave (a=1, c=true),
\* (a=1, c=false), (a=2, c=true), (a=2, c=false), in that order.
C15_Witness ==
    /\ lpc = "loaded"
    /\ cfg_in = <<Field("a", ListVal(<<IntVal(1), IntVal(2)>>)), Field("b", StrVal("x")),
                  Field("c", ListVal(<<BoolVal(TRUE), BoolVal(FALSE)>>))>>
    /\ yaml_config = [kind |-> "mapping", items |-> <<cfg_in>>]
    /\ suite_configs =
          << <<Field("a", IntVal(1)), Field("b", StrVal("x")), Field("c", BoolVal(TRUE))>>,
             <<Field("a", IntVal(1)), Field("b", StrVal("x")), Field("c", BoolVal(FALSE))>>,
             <<Field("a", IntVal(2)), Field("b", StrVal("x")), Field("c", BoolVal(TRUE))>>,
             <<Field("a", IntVal(2)), Field("b", StrVal("x")), Field("c", BoolVal(FALSE))>> >>

-----------------------------------------------------------------------------
(* expcore.py: ExperimentSuite objects and their per-input time limits *)

\* The dict that `input_time_limit={}` in the signature of __init__ stands for: one
\* object, made when the def statement runs, handed to every call that omits the
\* argument.
DefaultInputTimeLimit == 1

\* ExperimentSuite.__init__: self.time_limit = time_limit; self.input_time_limit =
\* input_time_limit (the object itself, no copy).  calls lists the input names that
\* set_input_time_limit was called with on this object.
ExperimentSuite(time_limit, input_time_limit, by_default) ==
    [time_limit |-> time_limit, input_time_limit |-> input_time_limit,
     by_default |-> by_default, calls |-> {}]

\* The suite as its methods see it: the dict its input_time_limit refers to.
SuiteView(i) ==
    [time_limit |-> suites[i].time_limit,
     input_time_limit |-> dicts[suites[i].input_time_limit]]

InputNames == {"g", "h"}

InitSuites ==
    /\ IdleLoad /\ IdleSweep /\ IdlePlace /\ IdleSelect /\ IdleCall
    /\ dicts = << <<>> >>
    /\ suites = <<>>

\* ExperimentSuite(name, executable, time_limit=...) with input_time_limit omitted.
ConstructWithDefaults ==
    /\ dicts # <<>>
    /\ Len(suites) < MaxSuites
    /\ \E time_limit \in {0, 30} :
          suites' = Append(suites, ExperimentSuite(time_limit, DefaultInputTimeLimit, TRUE))
    /\ UNCHANGED <<dicts, loadVars, sweepVars, placeVars, selectVars, callVars>>

\* ExperimentSuite(..., input_time_limit=time_limits) with a dict of the caller's, as
\* load_suite_from_yaml does.
ConstructWithOwnLimits ==
    /\ dicts # <<>>
    /\ Len(suites) < MaxSuites
    /\ \E time_limit \in {0, 30}, time_limits \in {<<>>, ("g" :> 720)} :
          /\ dicts' = Append(dicts, time_limits)
          /\ suites' = Append(suites, ExperimentSuite(time_limit, Len(dicts) + 1, FALSE))
    /\ UNCHANGED <<loadVars, sweepVars, placeVars, selectVars, callVars>>

\* suite.set_input_time_limit(input_name, time_limit):
\* self.input_time_limit[input_name] = time_limit
SetInputTimeLimit ==
    /\ \E i \in 1..Len(suites), input_name \in InputNames, time_limit \in {7} :
          LET d == suites[i].input_time_limit
          IN  /\ dicts' = [dicts EXCEPT ![d] =
                              [n \in (DOMAIN @) \cup {input_name} |->
                                  IF n = input_name THEN time_limit ELSE @[n]]]
              /\ suites' = [suites EXCEPT ![i].calls = @ \cup {input_name}]
    /\ UNCHANGED <<loadVars, sweepVars, placeVars, selectVars, callVars>>

NextSuites == ConstructWithDefaults \/ ConstructWithOwnLimits \/ SetInputTimeLimit

SpecSuites == InitSuites /\ [][NextSuites]_vars

\* C17: ExperimentSuite objects constructed with the default input_time_limit share no
\* state: whatever set_input_time_limit calls were made on one such suite, a different
\* suite built the same way (and never given a limit itself) still answers
\* get_input_time_limit with its own time_limit for every input name.
C17_DefaultSuitesShareNothing ==
    \A j \in 1..Len(suites) :
        suites[j].by_default /\ suites[j].calls = {} =>
            \A input_name \in InputNames :
                get_input_time_limit(SuiteView(j), input_name) = suites[j].time_limit

====
